---- MODULE Spec2Model ----
(***************************************************************************)
(* A model of the EWMH class of pyewmh (ewmh/ewmh.py): the named getters   *)
(* and setters, the generic accessors getProperty / setProperty and the    *)
(* Xlib display the class talks to.                                        *)
(*                                                                         *)
(* The display is modelled at its interface: an atom table (name -> code,  *)
(* codes are the positions in `atoms`), a property store, and the events   *)
(* handed to send_event.  Every call records in `last` what it returned    *)
(* or raised, the events it sent and the display primitives it invoked.    *)
(***************************************************************************)
EXTENDS Integers, Sequences, FiniteSets, TLC

VARIABLES
    atoms,      \* the display's atom table: atoms[code] is the name of the atom
    props,      \* the property store of the display: entries [win, atom, value]
    now,        \* the clock read by time.localtime()
    root,       \* self.root
    getAttrs,   \* self.__getAttrs : property name -> name of the getter
    setAttrs,   \* self.__setAttrs : property name -> name of the setter
    last        \* the call that has just returned, NoCall once the caller has its outcome

vars == <<atoms, props, now, root, getAttrs, setAttrs, last>>

(***************************************************************************)
(* Bounds                                                                  *)
(***************************************************************************)
MaxTime == 2

(***************************************************************************)
(* Python values, tagged with their type.                                  *)
(***************************************************************************)
PNone    == [t |-> "None", v |-> 0]
PInt(n)  == [t |-> "int", v |-> n]
PBool(b) == [t |-> "bool", v |-> IF b THEN 1 ELSE 0]
PStr(s)  == [t |-> "str", v |-> s]
PList(s) == [t |-> "list", v |-> s]
PWin(id) == [t |-> "Window", v |-> id]
PProp(val) == [t |-> "Property", v |-> val]
PSelf    == [t |-> "EWMH", v |-> 0]

Ints(s) == PList([i \in DOMAIN s |-> PInt(s[i])])

\* Python truth value: None, 0, False, '' and [] are false, objects are true
Truthy(val) ==
    CASE val.t = "None" -> FALSE
      [] val.t \in {"int", "bool"} -> val.v # 0
      [] val.t = "str" -> val.v # ""
      [] val.t = "list" -> val.v # <<>>
      [] OTHER -> TRUE

\* isinstance(v, int): bool is a subclass of int
IsInt(val) == val.t \in {"int", "bool"}

RECURSIVE BitOr(_, _)
BitOr(a, b) ==
    IF a = 0 THEN b
    ELSE IF b = 0 THEN a
    ELSE (IF a % 2 = 1 \/ b % 2 = 1 THEN 1 ELSE 0) + 2 * BitOr(a \div 2, b \div 2)

(***************************************************************************)
(* Xlib.X constants used by the class                                      *)
(***************************************************************************)
CurrentTime == 0
AnyPropertyType == 0
NONE == 0
SubstructureNotifyMask == 524288
SubstructureRedirectMask == 1048576

(***************************************************************************)
(* Execution context of a call and its outcome.  x = [atoms, sent, trace]; *)
(* an outcome is [x, exc, val]: exc = "" when the call returned val.       *)
(***************************************************************************)
Return(x, val) == [x |-> x, exc |-> "", val |-> val]
Raise(x, e, msg) == [x |-> x, exc |-> e, val |-> msg]
Traced(x, prim) == [x EXCEPT !.trace = Append(@, prim)]

AtomCode(tab, name) ==
    IF \E i \in DOMAIN tab : tab[i] = name
    THEN CHOOSE i \in DOMAIN tab : tab[i] = name
    ELSE NONE

\* display.get_atom(atomname, only_if_exists=0): the code of the atom; an atom
\* that does not exist is created, unless only_if_exists, which gives X.NONE
get_atom(x, name, only_if_exists) ==
    LET y == Traced(x, "get_atom") IN
    IF AtomCode(x.atoms, name) # NONE
    THEN Return(y, PInt(AtomCode(x.atoms, name)))
    ELSE IF only_if_exists
         THEN Return(y, PInt(NONE))
         ELSE Return([y EXCEPT !.atoms = Append(@, name)], PInt(Len(x.atoms) + 1))

\* display.get_atom_name(atom): raises BadAtom for a code that names no atom
get_atom_name(x, atom) ==
    LET y == Traced(x, "get_atom_name") IN
    IF IsInt(atom) /\ atom.v \in DOMAIN x.atoms
    THEN Return(y, PStr(x.atoms[atom.v]))
    ELSE Raise(y, "BadAtom", PNone)

\* win.get_full_property(atom, type): the property object, or None
get_full_property(x, win, atom, type) ==
    LET y == Traced(x, "get_full_property")
        hit == {e \in props : e.win = win.v /\ e.atom = atom.v}
    IN  IF hit = {} THEN Return(y, PNone)
        ELSE Return(y, PProp((CHOOSE e \in hit : TRUE).value))

\* display.create_resource_object('window', wId)
create_resource_object(x, wId) ==
    Return(Traced(x, "create_resource_object"), PWin(wId.v))

\* self.root.send_event(ev, event_mask=mask)
send_event(x, on, ev, mask) ==
    Return([Traced(x, "send_event") EXCEPT
               !.sent = Append(@, [on |-> on, event |-> ev, event_mask |-> mask])],
           PNone)

(***************************************************************************)
(* Private helpers of the class                                            *)
(***************************************************************************)
\* mutant: for the root window the empty list is returned without a request
_getProperty_EarlyReturn(x, type, win) ==
    IF ~Truthy(win) THEN Return(x, PList(<<>>))
    ELSE IF win.t # "Window"
    THEN Raise(x, "AttributeError", PStr("get_full_property"))
    ELSE LET a == get_atom(x, type, FALSE)
             p == get_full_property(a.x, win, a.val, AnyPropertyType)
         IN  IF Truthy(p.val) THEN Return(p.x, p.val.v)
             ELSE Return(p.x, PList(<<>>))

_getProperty(x, type, win) ==
    LET w == IF ~Truthy(win) THEN root ELSE win IN
    IF w.t # "Window"
    THEN Raise(x, "AttributeError", PStr("get_full_property"))
    ELSE LET a == get_atom(x, type, FALSE)
             p == get_full_property(a.x, w, a.val, AnyPropertyType)
         IN  IF Truthy(p.val) THEN Return(p.x, p.val.v)
             ELSE Return(p.x, PList(<<>>))

Zeros(n) == [i \in 1..n |-> PInt(0)]

\* mutant: the padding is forgotten, only the cut to five slots is kept
Pad5_NoPadding(data) == SubSeq(data, 1, IF Len(data) < 5 THEN Len(data) ELSE 5)

\* (data+[0]*(5-len(data)))[:5]
Pad5(data) ==
    LET padded == data \o Zeros(IF Len(data) < 5 THEN 5 - Len(data) ELSE 0)
    IN  SubSeq(padded, 1, 5)

\* mutant: the event is sent on the addressed window instead of the root
_setProperty_SentOnWin(x, type, data, win, mask) ==
    LET w == IF ~Truthy(win) THEN root ELSE win
        dataSize == IF data.t = "str" THEN 8 ELSE 32
        d == IF data.t = "str" THEN data ELSE PList(Pad5(data.v))
        a == get_atom(x, type, FALSE)
        ev == [window |-> w, client_type |-> a.val.v,
               format |-> dataSize, data |-> d]
        m == IF ~Truthy(mask)
             THEN BitOr(SubstructureRedirectMask, SubstructureNotifyMask)
             ELSE mask.v
    IN  send_event(a.x, w, ev, m)

_setProperty(x, type, data, win, mask) ==
    LET w == IF ~Truthy(win) THEN root ELSE win
        dataSize == IF data.t = "str" THEN 8 ELSE 32
        d == IF data.t = "str" THEN data ELSE PList(Pad5(data.v))
        a == get_atom(x, type, FALSE)
        ev == [window |-> w, client_type |-> a.val.v,
               format |-> dataSize, data |-> d]
        m == IF ~Truthy(mask)
             THEN BitOr(SubstructureRedirectMask, SubstructureNotifyMask)
             ELSE mask.v
    IN  send_event(a.x, root, ev, m)

\* mutant: the failure of the lookup is not caught
_getAtomName_NoExcept(x, atom) == get_atom_name(x, atom)

_getAtomName(x, atom) ==
    LET r == get_atom_name(x, atom) IN
    IF r.exc = "" THEN r ELSE Return(r.x, PStr("UNKNOWN"))

\* mutant: the test for a zero id is missing
_createWindow_NoZeroTest(x, wId) == create_resource_object(x, wId)

_createWindow(x, wId) ==
    IF ~Truthy(wId) THEN Return(x, PNone)
    ELSE create_resource_object(x, wId)

\* [f(e) for e in s], threading the context through the calls
RECURSIVE MapAtomName(_, _)
MapAtomName(x, s) ==
    IF s = <<>> THEN Return(x, <<>>)
    ELSE LET h == _getAtomName(x, Head(s))
             r == MapAtomName(h.x, Tail(s))
         IN  Return(r.x, <<h.val>> \o r.val)

RECURSIVE MapCreateWindow(_, _)
MapCreateWindow(x, s) ==
    IF s = <<>> THEN Return(x, <<>>)
    ELSE LET h == _createWindow(x, Head(s))
             r == MapCreateWindow(h.x, Tail(s))
         IN  Return(r.x, <<h.val>> \o r.val)

\* seq[0]
Index0(x, arr) ==
    IF arr.v = <<>> THEN Raise(x, "IndexError", PNone)
    ELSE Return(x, arr.v[1])

(***************************************************************************)
(* Setters                                                                 *)
(***************************************************************************)
setNumberOfDesktops(x, nb) ==
    _setProperty(x, "_NET_NUMBER_OF_DESKTOPS", PList(<<nb>>), PNone, PNone)

setDesktopGeometry(x, w, h) ==
    _setProperty(x, "_NET_DESKTOP_GEOMETRY", PList(<<w, h>>), PNone, PNone)

setDesktopViewport(x, w, h) ==
    _setProperty(x, "_NET_DESKTOP_VIEWPORT", PList(<<w, h>>), PNone, PNone)

setCurrentDesktop(x, i) ==
    _setProperty(x, "_NET_CURRENT_DESKTOP", PList(<<i, PInt(CurrentTime)>>),
                 PNone, PNone)

setActiveWindow(x, win) ==
    IF win.t # "Window" THEN Raise(x, "AttributeError", PStr("id"))
    ELSE _setProperty(x, "_NET_ACTIVE_WINDOW",
                      PList(<<PInt(1), PInt(CurrentTime), PInt(win.v)>>), win, PNone)

\* int(show)
setShowingDesktop(x, show) ==
    _setProperty(x, "_NET_SHOWING_DESKTOP", PList(<<PInt(show.v)>>), PNone, PNone)

\* int(time.mktime(time.localtime())) is the clock in seconds
setCloseWindow(x, win) ==
    _setProperty(x, "_NET_CLOSE_WINDOW", PList(<<PInt(now), PInt(1)>>), win, PNone)

setWmName(x, win, name) ==
    _setProperty(x, "_NET_WM_NAME", name, win, PNone)

setWmVisibleName(x, win, name) ==
    _setProperty(x, "_NET_WM_VISIBLE_NAME", name, win, PNone)

setWmDesktop(x, win, i) ==
    _setProperty(x, "_NET_WM_DESKTOP", PList(<<i, PInt(1)>>), win, PNone)

\* the coordinate sent for an argument: 0 for None
Coord(c) == IF c.t = "None" THEN PInt(0) ELSE c

\* mutant: "if not c" in place of "if c is None", a coordinate 0 counts as omitted
GravityFlags_Truthiness(gravity, x_, y_, w_, h_) ==
    LET f0 == BitOr(gravity, 2048)
        f1 == IF ~Truthy(x_) THEN f0 ELSE BitOr(f0, 256)
        f2 == IF ~Truthy(y_) THEN f1 ELSE BitOr(f1, 512)
        f3 == IF ~Truthy(w_) THEN f2 ELSE BitOr(f2, 1024)
    IN  IF ~Truthy(h_) THEN f3 ELSE BitOr(f3, 2048)

\* gravity_flags after the four "if c is None" tests
GravityFlags(gravity, x_, y_, w_, h_) ==
    LET f0 == BitOr(gravity, 2048)
        f1 == IF x_.t = "None" THEN f0 ELSE BitOr(f0, 256)
        f2 == IF y_.t = "None" THEN f1 ELSE BitOr(f1, 512)
        f3 == IF w_.t = "None" THEN f2 ELSE BitOr(f2, 1024)
    IN  IF h_.t = "None" THEN f3 ELSE BitOr(f3, 2048)

setMoveResizeWindow(x, win, gravity, x_, y_, w_, h_) ==
    IF ~IsInt(gravity) THEN Raise(x, "TypeError", PStr("|"))
    ELSE _setProperty(x, "_NET_MOVERESIZE_WINDOW",
                      PList(<<PInt(GravityFlags(gravity.v, x_, y_, w_, h_)),
                              Coord(x_), Coord(y_), Coord(w_), Coord(h_)>>),
                      win, PNone)

\* state = self.display.get_atom(state, True) when state is not an int
StateCode(x, state) ==
    IF ~IsInt(state) THEN get_atom(x, state.v, TRUE) ELSE Return(x, state)

\* mutant: state2 is packed without being resolved
setWmState_State2Unresolved(x, win, action, state, state2) ==
    LET s1 == StateCode(x, state)
    IN  _setProperty(s1.x, "_NET_WM_STATE",
                     PList(<<action, s1.val, state2, PInt(1)>>), win, PNone)

setWmState(x, win, action, state, state2) ==
    LET s1 == StateCode(x, state)
        s2 == StateCode(s1.x, state2)
    IN  _setProperty(s2.x, "_NET_WM_STATE",
                     PList(<<action, s1.val, s2.val, PInt(1)>>), win, PNone)

(***************************************************************************)
(* Getters                                                                 *)
(***************************************************************************)
WindowList(x, type) ==
    LET p == _getProperty(x, type, PNone)
        r == MapCreateWindow(p.x, p.val.v)
    IN  Return(r.x, PList(r.val))

getClientList(x) == WindowList(x, "_NET_CLIENT_LIST")

getClientListStacking(x) == WindowList(x, "_NET_CLIENT_LIST_STACKING")

getNumberOfDesktops(x) ==
    LET p == _getProperty(x, "_NET_NUMBER_OF_DESKTOPS", PNone) IN Index0(p.x, p.val)

getDesktopGeometry(x) == _getProperty(x, "_NET_DESKTOP_GEOMETRY", PNone)

getDesktopViewPort(x) == _getProperty(x, "_NET_DESKTOP_VIEWPORT", PNone)

getCurrentDesktop(x) ==
    LET p == _getProperty(x, "_NET_CURRENT_DESKTOP", PNone) IN Index0(p.x, p.val)

getActiveWindow(x) ==
    LET active_window == _getProperty(x, "_NET_ACTIVE_WINDOW", PNone) IN
    IF ~Truthy(active_window.val) THEN Return(active_window.x, PNone)
    ELSE _createWindow(active_window.x, active_window.val.v[1])

getWorkArea(x) == _getProperty(x, "_NET_WORKAREA", PNone)

getShowingDesktop(x) ==
    LET p == _getProperty(x, "_NET_SHOWING_DESKTOP", PNone) IN Index0(p.x, p.val)

getWmName(x, win) == _getProperty(x, "_NET_WM_NAME", win)

getWmVisibleName(x, win) == _getProperty(x, "_NET_WM_VISIBLE_NAME", win)

\* arr[0] if arr else None
FirstOrNone(p) ==
    IF p.exc # "" THEN p
    ELSE IF Truthy(p.val) THEN Return(p.x, p.val.v[1]) ELSE Return(p.x, PNone)

getWmDesktop(x, win) == FirstOrNone(_getProperty(x, "_NET_WM_DESKTOP", win))

AtomList(x, type, win, str) ==
    LET p == _getProperty(x, type, win) IN
    IF p.exc # "" THEN p
    ELSE IF ~Truthy(str) THEN p
    ELSE LET r == MapAtomName(p.x, p.val.v) IN Return(r.x, PList(r.val))

getWmWindowType(x, win, str) == AtomList(x, "_NET_WM_WINDOW_TYPE", win, str)

getWmState(x, win, str) == AtomList(x, "_NET_WM_STATE", win, str)

getWmAllowedActions(x, win, str) == AtomList(x, "_NET_WM_ALLOWED_ACTIONS", win, str)

getWmPid(x, win) == FirstOrNone(_getProperty(x, "_NET_WM_PID", win))

(***************************************************************************)
(* Calling a bound method with an argument list: the parameters after      *)
(* self, the defaults of the trailing ones, the binding of the arguments.  *)
(***************************************************************************)
NoArgMethods ==
    {"getClientList", "getClientListStacking", "getNumberOfDesktops",
     "getDesktopGeometry", "getDesktopViewPort", "getCurrentDesktop",
     "getActiveWindow", "getWorkArea", "getShowingDesktop"}

OneArgMethods ==
    {"getWmName", "getWmVisibleName", "getWmDesktop", "getWmPid",
     "setNumberOfDesktops", "setCurrentDesktop", "setActiveWindow",
     "setShowingDesktop", "setCloseWindow"}

TwoArgMethods ==
    {"setDesktopGeometry", "setDesktopViewport", "setWmName",
     "setWmVisibleName", "setWmDesktop"}

StrMethods == {"getWmWindowType", "getWmState", "getWmAllowedActions"}

Methods ==
    NoArgMethods \cup OneArgMethods \cup TwoArgMethods \cup StrMethods
        \cup {"setMoveResizeWindow", "setWmState"}

\* the default values of the trailing parameters of f
Defaults(f) ==
    CASE f \in StrMethods -> <<PBool(FALSE)>>
      [] f = "setMoveResizeWindow" -> <<PInt(0), PNone, PNone, PNone, PNone>>
      [] f = "setWmState" -> <<PInt(0)>>
      [] OTHER -> <<>>

\* the number of parameters of f after self
NParams(f) ==
    CASE f \in NoArgMethods -> 0
      [] f \in OneArgMethods -> 1
      [] f \in TwoArgMethods -> 2
      [] f \in StrMethods -> 2
      [] f = "setMoveResizeWindow" -> 6
      [] f = "setWmState" -> 4

\* the arguments with the defaults of the omitted trailing parameters
Bound(f, args) ==
    LET d == Defaults(f)
        missing == NParams(f) - Len(args)
    IN  args \o SubSeq(d, Len(d) - missing + 1, Len(d))

Invoke(f, x, a) ==
    CASE f = "setNumberOfDesktops" -> setNumberOfDesktops(x, a[1])
      [] f = "setDesktopGeometry" -> setDesktopGeometry(x, a[1], a[2])
      [] f = "setDesktopViewport" -> setDesktopViewport(x, a[1], a[2])
      [] f = "setCurrentDesktop" -> setCurrentDesktop(x, a[1])
      [] f = "setActiveWindow" -> setActiveWindow(x, a[1])
      [] f = "setShowingDesktop" -> setShowingDesktop(x, a[1])
      [] f = "setCloseWindow" -> setCloseWindow(x, a[1])
      [] f = "setWmName" -> setWmName(x, a[1], a[2])
      [] f = "setWmVisibleName" -> setWmVisibleName(x, a[1], a[2])
      [] f = "setWmDesktop" -> setWmDesktop(x, a[1], a[2])
      [] f = "setMoveResizeWindow" ->
             setMoveResizeWindow(x, a[1], a[2], a[3], a[4], a[5], a[6])
      [] f = "setWmState" -> setWmState(x, a[1], a[2], a[3], a[4])
      [] f = "getClientList" -> getClientList(x)
      [] f = "getClientListStacking" -> getClientListStacking(x)
      [] f = "getNumberOfDesktops" -> getNumberOfDesktops(x)
      [] f = "getDesktopGeometry" -> getDesktopGeometry(x)
      [] f = "getDesktopViewPort" -> getDesktopViewPort(x)
      [] f = "getCurrentDesktop" -> getCurrentDesktop(x)
      [] f = "getActiveWindow" -> getActiveWindow(x)
      [] f = "getWorkArea" -> getWorkArea(x)
      [] f = "getShowingDesktop" -> getShowingDesktop(x)
      [] f = "getWmName" -> getWmName(x, a[1])
      [] f = "getWmVisibleName" -> getWmVisibleName(x, a[1])
      [] f = "getWmDesktop" -> getWmDesktop(x, a[1])
      [] f = "getWmWindowType" -> getWmWindowType(x, a[1], a[2])
      [] f = "getWmState" -> getWmState(x, a[1], a[2])
      [] f = "getWmAllowedActions" -> getWmAllowedActions(x, a[1], a[2])
      [] f = "getWmPid" -> getWmPid(x, a[1])

\* calling the bound method f with args: TypeError when the arguments do not fit
CallMethod(f, x, args) ==
    IF Len(args) > NParams(f) \/ Len(args) < NParams(f) - Len(Defaults(f))
    THEN Raise(x, "TypeError", PStr("arguments"))
    ELSE Invoke(f, x, Bound(f, args))

(***************************************************************************)
(* The generic accessors.  The tables hold bound methods and the call      *)
(* passes self again: f(self, *args).                                      *)
(***************************************************************************)
getProperty(x, prop, args) ==
    IF prop \notin DOMAIN getAttrs
    THEN Raise(x, "KeyError", PStr("Unknown readable property: " \o prop))
    ELSE CallMethod(getAttrs[prop], x, <<PSelf>> \o args)

\* mutant: the error message is the one of getProperty
setProperty_CopiedMessage(x, prop, args) ==
    IF prop \notin DOMAIN setAttrs
    THEN Raise(x, "KeyError", PStr("Unknown readable property: " \o prop))
    ELSE CallMethod(setAttrs[prop], x, <<PSelf>> \o args)

setProperty(x, prop, args) ==
    IF prop \notin DOMAIN setAttrs
    THEN Raise(x, "KeyError", PStr("Unknown writable property: " \o prop))
    ELSE CallMethod(setAttrs[prop], x, <<PSelf>> \o args)

\* self.__getAttrs.keys()
getReadableProperties(x) == Return(x, [t |-> "dict_keys", v |-> DOMAIN getAttrs])

\* mutant: the keys of the other table are returned
getWritableProperties_ReadableKeys(x) ==
    Return(x, [t |-> "dict_keys", v |-> DOMAIN getAttrs])

\* self.__setAttrs.keys()
getWritableProperties(x) == Return(x, [t |-> "dict_keys", v |-> DOMAIN setAttrs])

(***************************************************************************)
(* The state after construction                                            *)
(***************************************************************************)
RootWindow == PWin(1)
W == PWin(2)

GetTable ==
    "_NET_CLIENT_LIST" :> "getClientList"
    @@ "_NET_CLIENT_LIST_STACKING" :> "getClientListStacking"
    @@ "_NET_NUMBER_OF_DESKTOPS" :> "getNumberOfDesktops"
    @@ "_NET_DESKTOP_GEOMETRY" :> "getDesktopGeometry"
    @@ "_NET_DESKTOP_VIEWPORT" :> "getDesktopViewPort"
    @@ "_NET_CURRENT_DESKTOP" :> "getCurrentDesktop"
    @@ "_NET_ACTIVE_WINDOW" :> "getActiveWindow"
    @@ "_NET_WORKAREA" :> "getWorkArea"
    @@ "_NET_SHOWING_DESKTOP" :> "getShowingDesktop"
    @@ "_NET_WM_NAME" :> "getWmName"
    @@ "_NET_WM_VISIBLE_NAME" :> "getWmVisibleName"
    @@ "_NET_WM_DESKTOP" :> "getWmDesktop"
    @@ "_NET_WM_WINDOW_TYPE" :> "getWmWindowType"
    @@ "_NET_WM_STATE" :> "getWmState"
    @@ "_NET_WM_ALLOWED_ACTIONS" :> "getWmAllowedActions"
    @@ "_NET_WM_PID" :> "getWmPid"

SetTable ==
    "_NET_NUMBER_OF_DESKTOPS" :> "setNumberOfDesktops"
    @@ "_NET_DESKTOP_GEOMETRY" :> "setDesktopGeometry"
    @@ "_NET_DESKTOP_VIEWPORT" :> "setDesktopViewport"
    @@ "_NET_CURRENT_DESKTOP" :> "setCurrentDesktop"
    @@ "_NET_ACTIVE_WINDOW" :> "setActiveWindow"
    @@ "_NET_SHOWING_DESKTOP" :> "setShowingDesktop"
    @@ "_NET_CLOSE_WINDOW" :> "setCloseWindow"
    @@ "_NET_MOVERESIZE_WINDOW" :> "setMoveResizeWindow"
    @@ "_NET_WM_NAME" :> "setWmName"
    @@ "_NET_WM_VISIBLE_NAME" :> "setWmVisibleName"
    @@ "_NET_WM_DESKTOP" :> "setWmDesktop"
    @@ "_NET_WM_STATE" :> "setWmState"

\* the atoms a display with a running window manager holds at the start: the
\* window manager has interned the hints it supports and one state name
InitialAtoms ==
    <<"_NET_CLIENT_LIST", "_NET_CLIENT_LIST_STACKING",
      "_NET_NUMBER_OF_DESKTOPS", "_NET_DESKTOP_GEOMETRY",
      "_NET_DESKTOP_VIEWPORT", "_NET_CURRENT_DESKTOP", "_NET_ACTIVE_WINDOW",
      "_NET_WORKAREA", "_NET_SHOWING_DESKTOP", "_NET_MOVERESIZE_WINDOW",
      "_NET_WM_NAME", "_NET_WM_DESKTOP", "_NET_WM_WINDOW_TYPE",
      "_NET_WM_STATE", "_NET_WM_ALLOWED_ACTIONS", "_NET_WM_PID",
      "_NET_WM_STATE_FULLSCREEN">>

NoCall ==
    [op |-> "", prop |-> "", args |-> <<>>, pre |-> <<>>, exc |-> "",
     val |-> PNone, sent |-> <<>>, trace |-> <<>>, after |-> ""]

Init ==
    /\ atoms = InitialAtoms
    /\ props = {}
    /\ now = 1
    /\ root = RootWindow
    /\ getAttrs = GetTable
    /\ setAttrs = SetTable
    /\ last = NoCall

(***************************************************************************)
(* The argument lists the calls are made with                              *)
(***************************************************************************)
StateArgs ==
    {PInt(17), PStr("_NET_WM_STATE_FULLSCREEN"), PStr("_NET_WM_STATE_ABOVE")}

MoveResizeArgs ==
    {<<W>>} \cup
    {<<W, PInt(g), x_, y_, w_, h_>> :
        g \in {0, 10}, x_ \in {PNone, PInt(0), PInt(10)}, y_ \in {PNone, PInt(5)},
        w_ \in {PNone, PInt(7)}, h_ \in {PNone, PInt(20)}}

Args(f) ==
    CASE f \in NoArgMethods -> {<<>>}
      [] f \in {"getWmName", "getWmVisibleName", "getWmDesktop", "getWmPid",
                "setActiveWindow", "setCloseWindow"} -> {<<W>>}
      [] f \in StrMethods -> {<<W>>, <<W, PBool(TRUE)>>, <<W, PBool(FALSE)>>}
      [] f = "setNumberOfDesktops" -> {<<PInt(4)>>}
      [] f = "setCurrentDesktop" -> {<<PInt(0)>>, <<PInt(2)>>}
      [] f = "setShowingDesktop" ->
             {<<PBool(TRUE)>>, <<PBool(FALSE)>>, <<PInt(0)>>, <<PInt(1)>>}
      [] f = "setDesktopGeometry" -> {<<PInt(800), PInt(600)>>}
      [] f = "setDesktopViewport" -> {<<PInt(0), PInt(0)>>, <<PInt(10), PInt(20)>>}
      [] f \in {"setWmName", "setWmVisibleName"} -> {<<W, PStr("Hello")>>}
      [] f = "setWmDesktop" -> {<<W, PInt(3)>>}
      [] f = "setMoveResizeWindow" -> MoveResizeArgs
      [] f = "setWmState" ->
             {<<W, PInt(a), s>> : a \in {0, 1}, s \in StateArgs} \cup
             {<<W, PInt(a), s, s2>> :
                 a \in {0, 1}, s \in StateArgs, s2 \in StateArgs \cup {PInt(0)}}

\* the names the generic accessors are called with
TriedNames == DOMAIN GetTable \cup DOMAIN SetTable \cup {"_NET_SUPPORTED"}

GenericArgs(table, prop) ==
    IF prop \in DOMAIN table THEN Args(table[prop]) ELSE {<<>>, <<W>>}

(***************************************************************************)
(* Calls.  The class is synchronous: a call runs to its end in one step    *)
(* and leaves its outcome in `last`; ReturnToCaller hands control back,    *)
(* and only then the next call is made or the environment moves.           *)
(***************************************************************************)
X0 == [atoms |-> atoms, sent |-> <<>>, trace |-> <<>>]

Call(op, prop, args, r) ==
    /\ last = NoCall
    /\ atoms' = r.x.atoms
    /\ last' = [op |-> op, prop |-> prop, args |-> args, pre |-> atoms,
                exc |-> r.exc, val |-> r.val,
                sent |-> r.x.sent, trace |-> r.x.trace, after |-> ""]
    /\ UNCHANGED <<props, now, root, getAttrs, setAttrs>>

Named(f) == \E args \in Args(f) : Call(f, "", args, CallMethod(f, X0, args))

ReturnToCaller ==
    /\ last # NoCall
    /\ last' = NoCall
    /\ UNCHANGED <<atoms, props, now, root, getAttrs, setAttrs>>

CallSetNumberOfDesktops == Named("setNumberOfDesktops")
CallSetDesktopGeometry == Named("setDesktopGeometry")
CallSetDesktopViewport == Named("setDesktopViewport")
CallSetCurrentDesktop == Named("setCurrentDesktop")
CallSetActiveWindow == Named("setActiveWindow")
CallSetShowingDesktop == Named("setShowingDesktop")
CallSetCloseWindow == Named("setCloseWindow")
CallSetWmName == Named("setWmName")
CallSetWmVisibleName == Named("setWmVisibleName")
CallSetWmDesktop == Named("setWmDesktop")
CallSetMoveResizeWindow == Named("setMoveResizeWindow")
CallSetWmState == Named("setWmState")
CallGetClientList == Named("getClientList")
CallGetClientListStacking == Named("getClientListStacking")
CallGetNumberOfDesktops == Named("getNumberOfDesktops")
CallGetDesktopGeometry == Named("getDesktopGeometry")
CallGetDesktopViewPort == Named("getDesktopViewPort")
CallGetCurrentDesktop == Named("getCurrentDesktop")
CallGetActiveWindow == Named("getActiveWindow")
CallGetWorkArea == Named("getWorkArea")
CallGetShowingDesktop == Named("getShowingDesktop")
CallGetWmName == Named("getWmName")
CallGetWmVisibleName == Named("getWmVisibleName")
CallGetWmDesktop == Named("getWmDesktop")
CallGetWmWindowType == Named("getWmWindowType")
CallGetWmState == Named("getWmState")
CallGetWmAllowedActions == Named("getWmAllowedActions")
CallGetWmPid == Named("getWmPid")

CallGetProperty ==
    \E prop \in TriedNames : \E args \in GenericArgs(getAttrs, prop) :
        Call("getProperty", prop, args, getProperty(X0, prop, args))

CallSetProperty ==
    \E prop \in TriedNames : \E args \in GenericArgs(setAttrs, prop) :
        Call("setProperty", prop, args, setProperty(X0, prop, args))

\* the hint a named setter writes
HintOfSetter(f) == CHOOSE n \in DOMAIN SetTable : SetTable[n] = f

\* the caller reads a hint back with its getter right after the setter of the
\* same hint has returned; `after` keeps the name of that setter
CallGetterAfterSetter ==
    /\ last.op \in {SetTable[n] : n \in DOMAIN SetTable \cap DOMAIN GetTable}
    /\ LET f == GetTable[HintOfSetter(last.op)] IN
       \E args \in Args(f) :
           LET r == CallMethod(f, X0, args) IN
           /\ atoms' = r.x.atoms
           /\ last' = [op |-> f, prop |-> "", args |-> args, pre |-> atoms,
                       exc |-> r.exc, val |-> r.val, sent |-> r.x.sent,
                       trace |-> r.x.trace, after |-> last.op]
           /\ UNCHANGED <<props, now, root, getAttrs, setAttrs>>

CallGetReadableProperties ==
    Call("getReadableProperties", "", <<>>, getReadableProperties(X0))

CallGetWritableProperties ==
    Call("getWritableProperties", "", <<>>, getWritableProperties(X0))

(***************************************************************************)
(* The environment: the window manager writes and deletes properties       *)
(* through the same display, and time passes.                              *)
(***************************************************************************)
RootHints ==
    {"_NET_CLIENT_LIST", "_NET_CLIENT_LIST_STACKING", "_NET_NUMBER_OF_DESKTOPS",
     "_NET_DESKTOP_GEOMETRY", "_NET_DESKTOP_VIEWPORT", "_NET_CURRENT_DESKTOP",
     "_NET_ACTIVE_WINDOW", "_NET_WORKAREA", "_NET_SHOWING_DESKTOP"}

TextHints == {"_NET_WM_NAME", "_NET_WM_VISIBLE_NAME"}

\* the values the window manager writes: 32-bit arrays (window ids or atom
\* codes, 0 among them, and the empty array) and text
ArrayValues == {Ints(<<>>), Ints(<<0, 17>>), Ints(<<18, 17>>)}

HintValues(name) == IF name \in TextHints THEN {PStr("Hello")} ELSE ArrayValues

HintWindow(name) == IF name \in RootHints THEN RootWindow ELSE W

WMChangeProperty ==
    \E name \in DOMAIN GetTable : \E value \in HintValues(name) :
        LET a == get_atom(X0, name, FALSE) IN
        /\ last = NoCall
        /\ atoms' = a.x.atoms
        /\ props' = {[win |-> HintWindow(name).v, atom |-> a.val.v, value |-> value]}
        /\ UNCHANGED <<now, root, getAttrs, setAttrs, last>>

WMDeleteProperty ==
    /\ last = NoCall
    /\ props # {}
    /\ props' = {}
    /\ UNCHANGED <<atoms, now, root, getAttrs, setAttrs, last>>

Tick ==
    /\ last = NoCall
    /\ now < MaxTime
    /\ now' = now + 1
    /\ UNCHANGED <<atoms, props, root, getAttrs, setAttrs, last>>

Next ==
    \/ CallSetNumberOfDesktops \/ CallSetDesktopGeometry
    \/ CallSetDesktopViewport \/ CallSetCurrentDesktop
    \/ CallSetActiveWindow \/ CallSetShowingDesktop
    \/ CallSetCloseWindow \/ CallSetWmName \/ CallSetWmVisibleName
    \/ CallSetWmDesktop \/ CallSetMoveResizeWindow \/ CallSetWmState
    \/ CallGetClientList \/ CallGetClientListStacking
    \/ CallGetNumberOfDesktops \/ CallGetDesktopGeometry
    \/ CallGetDesktopViewPort \/ CallGetCurrentDesktop
    \/ CallGetActiveWindow \/ CallGetWorkArea \/ CallGetShowingDesktop
    \/ CallGetWmName \/ CallGetWmVisibleName \/ CallGetWmDesktop
    \/ CallGetWmWindowType \/ CallGetWmState \/ CallGetWmAllowedActions
    \/ CallGetWmPid
    \/ CallGetProperty \/ CallSetProperty \/ ReturnToCaller
    \/ CallGetReadableProperties \/ CallGetWritableProperties
    \/ CallGetterAfterSetter
    \/ WMChangeProperty \/ WMDeleteProperty \/ Tick

Spec == Init /\ [][Next]_vars

TypeOK ==
    /\ now \in 1..MaxTime
    /\ Len(atoms) <= Len(InitialAtoms) + 3
    /\ Cardinality(props) <= 1

(***************************************************************************)
(* Vocabulary of the properties below                                      *)
(***************************************************************************)
NamedGetters == {GetTable[n] : n \in DOMAIN GetTable}
NamedSetters == {SetTable[n] : n \in DOMAIN SetTable}

\* the hint a named getter reads and the window it reads it from
HintOf(f) == CHOOSE n \in DOMAIN GetTable : GetTable[n] = f
WindowOf(f) == IF HintOf(f) \in RootHints THEN root ELSE last.args[1]

\* what the display holds for a hint of a window: <<>> when it holds nothing
HeldEntries(win, name) ==
    {e \in props : e.win = win.v /\ e.atom = AtomCode(atoms, name)}
IsHeld(win, name) == HeldEntries(win, name) # {}
Held(win, name) ==
    IF IsHeld(win, name) THEN (CHOOSE e \in HeldEntries(win, name) : TRUE).value.v
    ELSE <<>>

\* the event of the one message the last call sent
Event == last.sent[1].event
Data == Event.data.v

(***************************************************************************)
(* C1: for every registered name and argument list the generic accessor    *)
(* behaves like the named accessor called with the same arguments on the   *)
(* same display: same result for getProperty, same message for             *)
(* setProperty.                                                            *)
(***************************************************************************)
C1_NamedOutcome(table) ==
    CallMethod(table[last.prop],
               [atoms |-> last.pre, sent |-> <<>>, trace |-> <<>>], last.args)

C1_GenericLikeNamed ==
    /\ (last.op = "getProperty" /\ last.prop \in DOMAIN getAttrs) =>
           /\ last.exc = C1_NamedOutcome(getAttrs).exc
           /\ last.val = C1_NamedOutcome(getAttrs).val
    /\ (last.op = "setProperty" /\ last.prop \in DOMAIN setAttrs) =>
           /\ last.exc = C1_NamedOutcome(setAttrs).exc
           /\ last.sent = C1_NamedOutcome(setAttrs).x.sent

(***************************************************************************)
(* C2: a generic accessor called with a name that is not in its table      *)
(* raises KeyError carrying the name, invokes no primitive of the display  *)
(* and sends no message.                                                   *)
(***************************************************************************)
C2_UnknownNameFails ==
    /\ (last.op = "getProperty" /\ last.prop \notin DOMAIN GetTable) =>
           /\ last.exc = "KeyError"
           /\ last.val = PStr("Unknown readable property: " \o last.prop)
           /\ last.trace = <<>> /\ last.sent = <<>> /\ atoms = last.pre
    /\ (last.op = "setProperty" /\ last.prop \notin DOMAIN SetTable) =>
           /\ last.exc = "KeyError"
           /\ last.val = PStr("Unknown writable property: " \o last.prop)
           /\ last.trace = <<>> /\ last.sent = <<>> /\ atoms = last.pre

C2_Witness ==
    /\ last.op = "setProperty" /\ last.prop = "_NET_CLIENT_LIST"
    /\ last.exc = "KeyError"

(***************************************************************************)
(* C3: no getter fails when the display holds nothing (or an empty value)  *)
(* for the hint: list-typed getters return an empty sequence, scalar-typed *)
(* getters return None.                                                    *)
(***************************************************************************)
C3_ListGetters ==
    {"getClientList", "getClientListStacking", "getDesktopGeometry",
     "getDesktopViewPort", "getWorkArea", "getWmWindowType", "getWmState",
     "getWmAllowedActions"}

C3_ScalarGetters ==
    {"getNumberOfDesktops", "getCurrentDesktop", "getShowingDesktop",
     "getActiveWindow", "getWmDesktop", "getWmPid"}

C3_AbsentNeverFails ==
    (/\ last.op \in C3_ListGetters \cup C3_ScalarGetters
     /\ Held(WindowOf(last.op), HintOf(last.op)) = <<>>) =>
        /\ last.exc = ""
        /\ last.op \in C3_ListGetters => last.val = PList(<<>>)
        /\ last.op \in C3_ScalarGetters => last.val = PNone

(***************************************************************************)
(* C4 as stated: setMoveResizeWindow sends [flags, x, y, w, h] with        *)
(* flags = gravity | 0x0800 | presence bits (0x0100 x, 0x0200 y, 0x0400 w, *)
(* 0x0800 h); an omitted coordinate is 0 and its presence bit is clear;    *)
(* gravity=0, x=10, h=20 gives flags 0x0D00.                               *)
(***************************************************************************)
C4_Call == last.op = "setMoveResizeWindow" /\ Len(last.args) = 6
C4_Supplied(k) == last.args[k].t # "None"
C4_Bit(flags, b) == (flags \div b) % 2
C4_PresenceBit(k) == CASE k = 3 -> 256 [] k = 4 -> 512 [] k = 5 -> 1024 [] k = 6 -> 2048

C4_Original ==
    C4_Call =>
        /\ last.exc = "" /\ Len(last.sent) = 1 /\ Len(Data) = 5
        /\ \A k \in 3..6 :
              /\ C4_Supplied(k) => Data[k - 1] = last.args[k]
              /\ ~C4_Supplied(k) =>
                    /\ Data[k - 1] = PInt(0)
                    /\ C4_Bit(Data[1].v, C4_PresenceBit(k)) = 0
        /\ (last.args = <<W, PInt(0), PInt(10), PNone, PNone, PInt(20)>>) =>
              Data = Ints(<<3328, 10, 0, 0, 20>>).v

(***************************************************************************)
(* C4 (amended): setMoveResizeWindow sends [flags, x, y, w, h]; flags is   *)
(* the gravity plus 0x0800 plus 0x0100, 0x0200, 0x0400 for a supplied x,   *)
(* y, w (gravity below 0x0100); bit 0x0800 is both the source bit and the  *)
(* presence bit of h, so it is set whether or not h is supplied.  An       *)
(* omitted coordinate is 0, a coordinate supplied as 0 still sets its bit. *)
(* gravity=0, x=10, h=20 gives flags 0x0900, payload [0x0900,10,0,0,20].   *)
(***************************************************************************)
C4_MoveResizeFlags ==
    C4_Call =>
        /\ last.exc = "" /\ Len(last.sent) = 1 /\ Len(Data) = 5
        /\ Data[1] = PInt(last.args[2].v + 2048
                          + (IF C4_Supplied(3) THEN 256 ELSE 0)
                          + (IF C4_Supplied(4) THEN 512 ELSE 0)
                          + (IF C4_Supplied(5) THEN 1024 ELSE 0))
        /\ \A k \in 3..6 :
              /\ C4_Supplied(k) => Data[k - 1] = last.args[k]
              /\ ~C4_Supplied(k) => Data[k - 1] = PInt(0)
              /\ (~C4_Supplied(k) /\ k # 6) =>
                     C4_Bit(Data[1].v, C4_PresenceBit(k)) = 0
        /\ C4_Bit(Data[1].v, 2048) = 1
        /\ (last.args = <<W, PInt(0), PInt(10), PNone, PNone, PInt(20)>>) =>
              Data = Ints(<<2304, 10, 0, 0, 20>>).v

C4_Witness ==
    /\ last.op = "setMoveResizeWindow"
    /\ last.args = <<W, PInt(0), PInt(10), PNone, PNone, PInt(20)>>
    /\ Data = Ints(<<2304, 10, 0, 0, 20>>).v

(***************************************************************************)
(* C5: setWmState sends [action, code(state), code(state2), 1, 0]: an      *)
(* integer argument is packed as it is, a name is replaced by the code the *)
(* display holds for it; a name never appears in the payload.              *)
(***************************************************************************)
C5_Call == last.op = "setWmState"
C5_Arg(k) == IF k <= Len(last.args) THEN last.args[k] ELSE PInt(0)

C5_WmStatePayload ==
    C5_Call =>
        /\ last.exc = "" /\ Len(last.sent) = 1
        /\ Event.format = 32 /\ Len(Data) = 5
        /\ Data[1] = last.args[2] /\ Data[4] = PInt(1) /\ Data[5] = PInt(0)
        /\ \A k \in 3..4 :
              /\ Data[k - 1].t = "int"
              /\ C5_Arg(k).t = "int" => Data[k - 1] = C5_Arg(k)
              /\ (C5_Arg(k).t = "str" /\ \E i \in DOMAIN last.pre : last.pre[i] = C5_Arg(k).v)
                     => last.pre[Data[k - 1].v] = C5_Arg(k).v

C5_Witness ==
    /\ last.op = "setWmState"
    /\ last.args = <<W, PInt(1), PStr("_NET_WM_STATE_FULLSCREEN"), PInt(0)>>
    /\ Data = Ints(<<1, 17, 0, 1, 0>>).v

(***************************************************************************)
(* C6: a state name the display holds no atom for is created by            *)
(* setWmState and its new, non-zero code is packed; otherwise the call     *)
(* fails without sending a message.                                        *)
(***************************************************************************)
C6_Unknown(k) ==
    /\ C5_Arg(k).t = "str"
    /\ \A i \in DOMAIN last.pre : last.pre[i] # C5_Arg(k).v

C6_NameCreatedOrCallFails ==
    C5_Call =>
        \A k \in 3..4 : C6_Unknown(k) =>
            \/ /\ last.exc = "" /\ Len(last.sent) = 1
               /\ Data[k - 1].v # NONE
               /\ Data[k - 1].v \in DOMAIN atoms
               /\ atoms[Data[k - 1].v] = C5_Arg(k).v
            \/ last.exc # "" /\ last.sent = <<>>

(***************************************************************************)
(* C7: every integer-payload setter sends its packing rule right-padded    *)
(* with zeros to exactly five 32-bit slots; setWmName and setWmVisibleName *)
(* send the text itself, format 8, unpadded.                               *)
(***************************************************************************)
C7_Rule ==
    CASE last.op = "setNumberOfDesktops" -> <<last.args[1].v>>
      [] last.op \in {"setDesktopGeometry", "setDesktopViewport"} ->
             <<last.args[1].v, last.args[2].v>>
      [] last.op = "setCurrentDesktop" -> <<last.args[1].v, 0>>
      [] last.op = "setActiveWindow" -> <<1, 0, last.args[1].v>>
      [] last.op = "setShowingDesktop" ->
             <<IF last.args[1] \in {PBool(TRUE), PInt(1)} THEN 1 ELSE 0>>
      [] last.op = "setCloseWindow" -> <<now, 1>>
      [] last.op = "setWmDesktop" -> <<last.args[2].v, 1>>

C7_IntSetters ==
    {"setNumberOfDesktops", "setDesktopGeometry", "setDesktopViewport",
     "setCurrentDesktop", "setActiveWindow", "setShowingDesktop",
     "setCloseWindow", "setWmDesktop"}

C7_PayloadPadded ==
    /\ last.op \in C7_IntSetters =>
           /\ last.exc = "" /\ Len(last.sent) = 1
           /\ Event.format = 32 /\ Event.data.t = "list" /\ Len(Data) = 5
           /\ \A i \in 1..5 :
                 Data[i] = PInt(IF i <= Len(C7_Rule) THEN C7_Rule[i] ELSE 0)
    /\ last.op \in {"setWmName", "setWmVisibleName"} =>
           /\ last.exc = "" /\ Len(last.sent) = 1
           /\ Event.format = 8 /\ Event.data = last.args[2]
           /\ Event.data.t = "str"

C7_Witness ==
    /\ last.op = "setCloseWindow" /\ now = 2
    /\ Data = Ints(<<2, 1, 0, 0, 0>>).v

(***************************************************************************)
(* C8: every message is sent on the root window bound at construction,     *)
(* with the mask SubstructureRedirect | SubstructureNotify; the window a   *)
(* setter addresses is only the window field of the message.               *)
(***************************************************************************)
C8_WindowSetters ==
    {"setActiveWindow", "setCloseWindow", "setWmName", "setWmVisibleName",
     "setWmDesktop", "setMoveResizeWindow", "setWmState"}

C8_SentOnRoot ==
    /\ \A i \in DOMAIN last.sent :
          /\ last.sent[i].on = RootWindow
          /\ last.sent[i].event_mask = 1048576 + 524288
    /\ last.op \in NamedSetters => last.exc = "" /\ Len(last.sent) = 1
    /\ last.op \in C8_WindowSetters => Event.window = last.args[1]
    /\ last.op \in NamedSetters \ C8_WindowSetters => Event.window = RootWindow

C8_Witness ==
    /\ last.op = "setActiveWindow" /\ Len(last.sent) = 1
    /\ Event.window = W /\ last.sent[1].on = RootWindow

(***************************************************************************)
(* C9: a window id decodes to a handle only when it is non-zero:           *)
(* getActiveWindow returns None when the hint is absent, empty or starts   *)
(* with id 0, else the handle of the first id; getClientList and           *)
(* getClientListStacking return one entry per id, in order, None for a     *)
(* zero id and the handle of the id otherwise.  None of them fails.        *)
(***************************************************************************)
C9_Handle(id) == IF id.v = 0 THEN PNone ELSE PWin(id.v)

C9_WindowIdsDecoded ==
    /\ last.op = "getActiveWindow" =>
           LET ids == Held(root, "_NET_ACTIVE_WINDOW") IN
           /\ last.exc = ""
           /\ last.val = IF ids = <<>> THEN PNone ELSE C9_Handle(ids[1])
    /\ last.op \in {"getClientList", "getClientListStacking"} =>
           LET ids == Held(root, HintOf(last.op)) IN
           /\ last.exc = "" /\ last.val.t = "list"
           /\ Len(last.val.v) = Len(ids)
           /\ \A i \in DOMAIN ids : last.val.v[i] = C9_Handle(ids[i])

C9_Witness ==
    /\ last.op = "getClientList"
    /\ last.val = PList(<<PNone, PWin(17)>>)

(***************************************************************************)
(* C10: getWmWindowType, getWmState and getWmAllowedActions with str=True  *)
(* return one name per code of the hint, in order, 'UNKNOWN' where the     *)
(* display holds no atom for the code; the call does not fail.  With       *)
(* str=False they return the codes unchanged.                              *)
(***************************************************************************)
C10_WithNames == Len(last.args) = 2 /\ last.args[2] = PBool(TRUE)

C10_Name(code) ==
    IF code.v \in 1..Len(atoms) THEN PStr(atoms[code.v]) ELSE PStr("UNKNOWN")

C10_AtomNames ==
    last.op \in StrMethods =>
        LET codes == Held(last.args[1], HintOf(last.op)) IN
        /\ last.exc = "" /\ last.val.t = "list"
        /\ Len(last.val.v) = Len(codes)
        /\ \A i \in DOMAIN codes :
              last.val.v[i] = IF C10_WithNames THEN C10_Name(codes[i]) ELSE codes[i]

C10_Witness ==
    /\ last.op = "getWmState" /\ C10_WithNames
    /\ last.val = PList(<<PStr("UNKNOWN"), PStr("_NET_WM_STATE_FULLSCREEN")>>)

(***************************************************************************)
(* C11: at any time, after any calls, getReadableProperties and            *)
(* getWritableProperties return the same two sets of names; their union is *)
(* the catalog of 18 hints; _NET_CLIENT_LIST is readable only,             *)
(* _NET_CLOSE_WINDOW writable only, _NET_NUMBER_OF_DESKTOPS both.          *)
(***************************************************************************)
C11_Readable ==
    {"_NET_CLIENT_LIST", "_NET_CLIENT_LIST_STACKING", "_NET_NUMBER_OF_DESKTOPS",
     "_NET_DESKTOP_GEOMETRY", "_NET_DESKTOP_VIEWPORT", "_NET_CURRENT_DESKTOP",
     "_NET_ACTIVE_WINDOW", "_NET_WORKAREA", "_NET_SHOWING_DESKTOP",
     "_NET_WM_NAME", "_NET_WM_VISIBLE_NAME", "_NET_WM_DESKTOP",
     "_NET_WM_WINDOW_TYPE", "_NET_WM_STATE", "_NET_WM_ALLOWED_ACTIONS",
     "_NET_WM_PID"}

C11_Writable ==
    {"_NET_NUMBER_OF_DESKTOPS", "_NET_DESKTOP_GEOMETRY", "_NET_DESKTOP_VIEWPORT",
     "_NET_CURRENT_DESKTOP", "_NET_ACTIVE_WINDOW", "_NET_SHOWING_DESKTOP",
     "_NET_CLOSE_WINDOW", "_NET_MOVERESIZE_WINDOW", "_NET_WM_NAME",
     "_NET_WM_VISIBLE_NAME", "_NET_WM_DESKTOP", "_NET_WM_STATE"}

C11_Catalog ==
    {"_NET_NUMBER_OF_DESKTOPS", "_NET_DESKTOP_GEOMETRY", "_NET_DESKTOP_VIEWPORT",
     "_NET_CURRENT_DESKTOP", "_NET_ACTIVE_WINDOW", "_NET_WORKAREA",
     "_NET_SHOWING_DESKTOP", "_NET_CLIENT_LIST", "_NET_CLIENT_LIST_STACKING",
     "_NET_CLOSE_WINDOW", "_NET_MOVERESIZE_WINDOW", "_NET_WM_NAME",
     "_NET_WM_VISIBLE_NAME", "_NET_WM_DESKTOP", "_NET_WM_WINDOW_TYPE",
     "_NET_WM_STATE", "_NET_WM_ALLOWED_ACTIONS", "_NET_WM_PID"}

C11_NameSetsFixed ==
    /\ last.op = "getReadableProperties" =>
           /\ last.exc = "" /\ last.val.v = C11_Readable
           /\ "_NET_CLIENT_LIST" \in last.val.v
           /\ "_NET_CLOSE_WINDOW" \notin last.val.v
           /\ "_NET_NUMBER_OF_DESKTOPS" \in last.val.v
    /\ last.op = "getWritableProperties" =>
           /\ last.exc = "" /\ last.val.v = C11_Writable
           /\ "_NET_CLIENT_LIST" \notin last.val.v
           /\ "_NET_CLOSE_WINDOW" \in last.val.v
           /\ "_NET_NUMBER_OF_DESKTOPS" \in last.val.v
    /\ last.op \in {"getReadableProperties", "getWritableProperties"} =>
           /\ last.val.v \cup DOMAIN (IF last.op = "getReadableProperties"
                                      THEN setAttrs ELSE getAttrs) = C11_Catalog
           /\ last.trace = <<>> /\ atoms = last.pre
    /\ Cardinality(C11_Catalog) = 18
    /\ DOMAIN getAttrs \cup DOMAIN setAttrs = C11_Catalog

\* the names are asked for after calls that interned two atoms
C11_Witness ==
    /\ last.op = "getWritableProperties"
    /\ Len(atoms) = Len(InitialAtoms) + 2
    /\ last.val.v = C11_Writable

(***************************************************************************)
(* C12 as stated: every getter call issues one get-property request and    *)
(* returns what the display holds at that time, also right after a setter  *)
(* of the same hint; it changes nothing on the display, sends no message   *)
(* and never flushes.  Every setter call sends exactly one message,        *)
(* fetches no property and never flushes.                                  *)
(***************************************************************************)
C12_Count(seq, prim) == Cardinality({i \in DOMAIN seq : seq[i] = prim})

C12_ReadPrimitives ==
    {"get_atom", "get_full_property", "get_atom_name", "create_resource_object"}

\* what a getter that returns the value as it is returns: [] for no property
C12_HeldValue(win, name) ==
    IF IsHeld(win, name) THEN (CHOOSE e \in HeldEntries(win, name) : TRUE).value
    ELSE PList(<<>>)

C12_RawGetters ==
    {"getDesktopGeometry", "getDesktopViewPort", "getWorkArea", "getWmName",
     "getWmVisibleName"}

C12_FirstGetters ==
    {"getNumberOfDesktops", "getCurrentDesktop", "getShowingDesktop",
     "getWmDesktop", "getWmPid"}

C12_GetterReads ==
    last.op \in NamedGetters =>
        LET held == C12_HeldValue(WindowOf(last.op), HintOf(last.op)) IN
        /\ C12_Count(last.trace, "get_full_property") = 1
        /\ \A i \in DOMAIN last.trace : last.trace[i] \in C12_ReadPrimitives
        /\ last.sent = <<>>
        /\ last.op \in C12_RawGetters => last.exc = "" /\ last.val = held
        /\ (last.op \in C12_FirstGetters /\ held.v # <<>>) =>
               last.exc = "" /\ last.val = held.v[1]

C12_SetterSends ==
    last.op \in NamedSetters =>
        /\ last.exc = "" /\ Len(last.sent) = 1
        /\ C12_Count(last.trace, "send_event") = 1
        /\ \A i \in DOMAIN last.trace : last.trace[i] \in {"get_atom", "send_event"}

C12_Original ==
    /\ C12_GetterReads
    /\ C12_SetterSends
    /\ last.op \in NamedGetters => atoms = last.pre

(***************************************************************************)
(* C12 (amended): as above, but a getter call is not without effect on the *)
(* display: when the display holds no atom for the hint's name the getter  *)
(* creates it (get_atom), and that is the only change it makes.            *)
(***************************************************************************)
C12_FrameEffects ==
    /\ C12_GetterReads
    /\ C12_SetterSends
    /\ last.op \in NamedGetters =>
           atoms = IF \E i \in DOMAIN last.pre : last.pre[i] = HintOf(last.op)
                   THEN last.pre
                   ELSE Append(last.pre, HintOf(last.op))

\* getWmDesktop right after setWmDesktop(win, 3): the value of the display
C12_Witness ==
    /\ last.op = "getWmDesktop" /\ last.after = "setWmDesktop"
    /\ last.val = PInt(18)
    /\ C12_Count(last.trace, "get_full_property") = 1

====
